---- MODULE Spec2Model ----
(***************************************************************************)
(* Model of the pcb_board schema of src/src/pcb/pcb_board.ts: a zod        *)
(* preprocess step (conflict detection and shape auto-derivation) followed *)
(* by the intersection of the base object schema with a union of the two   *)
(* shape schemas discriminated by "shape".                                 *)
(*                                                                         *)
(* JavaScript values are records [t, n, s]: t is the typeof-like tag, n    *)
(* the number and s the string.  Numbers that stand for lengths are in     *)
(* tenths of a millimetre, so the JavaScript number 1.4 is Num(14).        *)
(***************************************************************************)
EXTENDS Integers, Sequences, FiniteSets, TLC

VARIABLES raw, pc, result, idGen, prev, passes

vars == <<raw, pc, result, idGen, prev, passes>>

\* ---- bounds ----
MaxOutline == 2
MaxPasses == 2

\* ---- JavaScript values ----
U == [t |-> "undefined", n |-> 0, s |-> ""]
Null == [t |-> "null", n |-> 0, s |-> ""]
Num(k) == [t |-> "number", n |-> k, s |-> ""]
Str(x) == [t |-> "string", n |-> 0, s |-> x]

UPoint == [t |-> "undefined", x |-> 0, y |-> 0]
Pt(a, b) == [t |-> "object", x |-> a, y |-> b]
BadPoint == [t |-> "string", x |-> 0, y |-> 0]

UOutline == [t |-> "undefined", pts |-> <<>>]
Arr(ps) == [t |-> "array", pts |-> ps]
BadOutline == [t |-> "string", pts |-> <<>>]

\* ---- zod issues ----
Issue(c, p, r) == [code |-> c, path |-> p, received |-> r]

Good(val) == [ok |-> TRUE, v |-> val, issues |-> {}]
Bad(val, is) == [ok |-> FALSE, v |-> val, issues |-> is]

\* ---- imported primitive schemas ----
UnitTable == [s \in {"2mm", "2cm"} |-> IF s = "2mm" THEN 20 ELSE 200]

length(v, p) ==
    CASE v.t = "number" ->
           IF v.n > 0 THEN Good(v) ELSE Bad(U, {Issue("too_small", p, "number")})
      [] v.t = "string" ->
           IF v.s \in DOMAIN UnitTable
             THEN Good(Num(UnitTable[v.s]))
             ELSE Bad(U, {Issue("invalid_string", p, "string")})
      [] OTHER -> Bad(U, {Issue("invalid_type", p, v.t)})

point(v, p) ==
    IF v.t = "object" THEN Good(Pt(v.x, v.y))
    ELSE Bad(UPoint, {Issue("invalid_type", p, v.t)})

GeneratedId(gen) == [t |-> "string", n |-> gen, s |-> "pcb_board_"]

getZodPrefixedIdWithDefault(v, gen) ==
    CASE v.t = "undefined" -> Good(GeneratedId(gen))
      [] v.t = "string" -> Good(v)
      [] OTHER -> Bad(U, {Issue("invalid_type", "pcb_board_id", v.t)})

\* ---- fields of pcb_board_base ----
DefaultThickness == 14
DefaultNumLayers == 4
DefaultMaterial == "fr4"
Materials == {"fr4", "fr1"}

type_literal(v) ==
    IF v = Str("pcb_board") THEN Good(v)
    ELSE Bad(U, {Issue("invalid_literal", "type", v.t)})

\* mutant: the default overwrites a supplied thickness
thickness_field_overwrite(v) == length(Num(DefaultThickness), "thickness")

thickness_field(v) ==
    IF v.t = "undefined" THEN length(Num(DefaultThickness), "thickness")
    ELSE length(v, "thickness")

num_layers_field(v) ==
    LET d == IF v.t = "undefined" THEN Num(DefaultNumLayers) ELSE v
    IN IF d.t = "number" THEN Good(d)
       ELSE Bad(U, {Issue("invalid_type", "num_layers", d.t)})

material_field(v) ==
    LET d == IF v.t = "undefined" THEN Str(DefaultMaterial) ELSE v
    IN CASE d.t # "string" -> Bad(U, {Issue("invalid_type", "material", d.t)})
         [] d.t = "string" /\ d.s \in Materials -> Good(d)
         [] OTHER -> Bad(U, {Issue("invalid_enum_value", "material", "string")})

IsRecordInput(input) == input.jstype = "object"

StrippedShape == [shape |-> U, width |-> U, height |-> U, outline |-> UOutline]
StrippedBase ==
    [type |-> U, pcb_board_id |-> U, center |-> UPoint, thickness |-> U,
     num_layers |-> U, material |-> U]

base_fields(input, id) ==
    IF ~IsRecordInput(input)
      THEN Bad(StrippedBase, {Issue("invalid_type", "", input.jstype)})
      ELSE
        LET ty == type_literal(input.type)
            ce == point(input.center, "center")
            th == thickness_field(input.thickness)
            nl == num_layers_field(input.num_layers)
            ma == material_field(input.material)
        IN [ok |-> ty.ok /\ id.ok /\ ce.ok /\ th.ok /\ nl.ok /\ ma.ok,
            v |-> [type |-> ty.v, pcb_board_id |-> id.v, center |-> ce.v,
                   thickness |-> th.v, num_layers |-> nl.v, material |-> ma.v],
            issues |-> ty.issues \cup id.issues \cup ce.issues \cup th.issues
                         \cup nl.issues \cup ma.issues]

\* mutant: pcb_board_id is always generated, a supplied one is dropped
pcb_board_base_fresh_id(input, gen) ==
    base_fields(input, Good(GeneratedId(gen)))

pcb_board_base(input, gen) ==
    base_fields(input, getZodPrefixedIdWithDefault(input.pcb_board_id, gen))

\* ---- shape-specific schemas (discriminated by "shape") ----
\* mutant: height declared optional
pcb_board_rect_properties_optional_height(input) ==
    LET w == length(input.width, "width")
        h == IF input.height.t = "undefined" THEN Good(U)
             ELSE length(input.height, "height")
    IN [ok |-> w.ok /\ h.ok,
        v |-> [shape |-> Str("rect"), width |-> w.v, height |-> h.v,
               outline |-> UOutline],
        issues |-> w.issues \cup h.issues]

\* mutant: width declared optional
pcb_board_rect_properties_optional_width(input) ==
    LET w == IF input.width.t = "undefined" THEN Good(U)
             ELSE length(input.width, "width")
        h == length(input.height, "height")
    IN [ok |-> w.ok /\ h.ok,
        v |-> [shape |-> Str("rect"), width |-> w.v, height |-> h.v,
               outline |-> UOutline],
        issues |-> w.issues \cup h.issues]

pcb_board_rect_properties(input) ==
    LET w == length(input.width, "width")
        h == length(input.height, "height")
    IN [ok |-> w.ok /\ h.ok,
        v |-> [shape |-> Str("rect"), width |-> w.v, height |-> h.v,
               outline |-> UOutline],
        issues |-> w.issues \cup h.issues]

array_of_point(v, p) ==
    IF v.t # "array" THEN Bad(UOutline, {Issue("invalid_type", p, v.t)})
    ELSE LET el == [i \in DOMAIN v.pts |-> point(v.pts[i], p)]
         IN [ok |-> \A i \in DOMAIN el : el[i].ok,
             v |-> Arr([i \in DOMAIN el |-> el[i].v]),
             issues |-> UNION {el[i].issues : i \in DOMAIN el}]

pcb_board_polygon_properties(input) ==
    LET o == array_of_point(input.outline, "outline")
    IN [ok |-> o.ok,
        v |-> [shape |-> Str("polygon"), width |-> U, height |-> U,
               outline |-> o.v],
        issues |-> o.issues]

pcb_board_shape_properties(input) ==
    CASE ~IsRecordInput(input) ->
           Bad(StrippedShape, {Issue("invalid_type", "", input.jstype)})
      [] IsRecordInput(input) /\ input.shape = Str("rect") ->
           pcb_board_rect_properties(input)
      [] IsRecordInput(input) /\ input.shape = Str("polygon") ->
           pcb_board_polygon_properties(input)
      [] OTHER ->
           Bad(StrippedShape, {Issue("invalid_union_discriminator", "shape", "")})

\* ---- combined schema: intersection of base and shape ----
NoValue ==
    [jstype |-> "undefined", type |-> U, pcb_board_id |-> U, center |-> UPoint,
     thickness |-> U, num_layers |-> U, material |-> U,
     shape |-> U, width |-> U, height |-> U, outline |-> UOutline]

pcb_board_combined(input, gen) ==
    LET l == pcb_board_base(input, gen)
        r == pcb_board_shape_properties(input)
    IN IF l.ok /\ r.ok
         THEN [ok |-> TRUE, thrown |-> FALSE,
               value |-> [jstype |-> "object", type |-> l.v.type,
                          pcb_board_id |-> l.v.pcb_board_id,
                          center |-> l.v.center,
                          thickness |-> l.v.thickness,
                          num_layers |-> l.v.num_layers,
                          material |-> l.v.material,
                          shape |-> r.v.shape, width |-> r.v.width,
                          height |-> r.v.height, outline |-> r.v.outline],
               issues |-> {}]
         ELSE [ok |-> FALSE, thrown |-> FALSE, value |-> NoValue,
               issues |-> l.issues \cup r.issues]

\* ---- preprocess ----
hasWidthHeight(boardInput) ==
    boardInput.width.t # "undefined" \/ boardInput.height.t # "undefined"

\* mutant: only an array counts as a supplied outline
hasOutline_array_only(boardInput) == boardInput.outline.t = "array"

hasOutline(boardInput) == boardInput.outline.t # "undefined"

\* mutant: the explicit tag is never consulted
Falsy_ignore_tag(v) == TRUE

\* mutant: `shape === null` in place of `!shape`
Falsy_null_only(v) == v.t = "null"

\* JavaScript `!v`
Falsy(v) ==
    \/ v.t \in {"undefined", "null"}
    \/ v.t = "string" /\ v.s = ""
    \/ v.t = "number" /\ v.n = 0

ConflictIssue == Issue("custom", "", "")

preprocess(input) ==
    IF IsRecordInput(input)
      THEN IF hasWidthHeight(input) /\ hasOutline(input)
             THEN [thrown |-> TRUE, value |-> input]
             ELSE IF Falsy(input.shape) /\ hasOutline(input)
                    THEN [thrown |-> FALSE,
                          value |-> [input EXCEPT !.shape = Str("polygon")]]
                  ELSE IF Falsy(input.shape) /\ hasWidthHeight(input)
                    THEN [thrown |-> FALSE,
                          value |-> [input EXCEPT !.shape = Str("rect")]]
                  ELSE [thrown |-> FALSE, value |-> input]
      ELSE [thrown |-> FALSE, value |-> input]

pcb_board(input, gen) ==
    LET pre == preprocess(input)
    IN IF pre.thrown
         THEN [ok |-> FALSE, thrown |-> TRUE, value |-> NoValue,
               issues |-> {ConflictIssue}]
         ELSE pcb_board_combined(pre.value, gen)

\* The id default runs when the base object schema visits an absent
\* pcb_board_id, whether or not the other fields validate.
IdGeneratorCalls(input) ==
    IF IsRecordInput(input) /\ ~preprocess(input).thrown
         /\ input.pcb_board_id.t = "undefined"
      THEN 1 ELSE 0

\* The object handed in by the caller after the call: the auto-derived
\* shape is put on a spread copy, the caller's object is left as it was.
\* mutant: the derived shape is assigned on the caller's object
CallerRecordAfter_in_place(input) == preprocess(input).value

CallerRecordAfter(input) == input

\* ---- error taxonomy over zod issues ----
ErrorKind(i) ==
    CASE i.code = "custom" -> "ConflictingShapeFields"
      [] i.code = "invalid_union_discriminator" -> "UnknownOrMismatchedShape"
      [] i.code = "invalid_enum_value" -> "InvalidEnumerationValue"
      [] i.code \in {"invalid_type", "invalid_literal"}
           /\ i.received = "undefined" -> "MissingRequiredField"
      [] OTHER -> "InvalidFieldType"

ErrorKinds(res) == {ErrorKind(i) : i \in res.issues}

\* ---- inputs ----
ShapeTags == {U, Null, Str(""), Str("rect"), Str("polygon"), Str("circle")}
WidthInputs == {U, Num(100), Str("2cm"), Num(0), Num(-50), Str("abc")}
HeightInputs == {U, Num(200), Str("2mm"), Num(0), Num(-50)}
PointSeqs == {[i \in 1..k |-> Pt(i, 0)] : k \in 0..MaxOutline}
OutlineInputs ==
    {UOutline, BadOutline, Arr(<<BadPoint>>)} \cup {Arr(ps) : ps \in PointSeqs}
CenterInputs == {UPoint, Pt(0, 0), BadPoint}
TypeInputs == {U, Str("pcb_board")}
IdInputs == {U, Str("board_A"), Num(7)}
ThicknessInputs == {U, Num(16), Str("2mm"), Str("abc")}
NumLayersInputs == {U, Num(2)}
MaterialInputs == {U, Str("fr1"), Str("bad")}

RecordInputs ==
    [jstype : {"object"}, type : TypeInputs, pcb_board_id : IdInputs,
     center : CenterInputs, thickness : ThicknessInputs,
     num_layers : NumLayersInputs, material : MaterialInputs,
     shape : ShapeTags, width : WidthInputs, height : HeightInputs,
     outline : OutlineInputs]

NonRecordInputs == {[NoValue EXCEPT !.jstype = j] : j \in {"null", "array"}}

NoResult == [ok |-> FALSE, thrown |-> FALSE, value |-> NoValue, issues |-> {}]

\* ---- state machine ----
Init ==
    /\ raw \in RecordInputs \cup NonRecordInputs
    /\ pc = "ready"
    /\ result = NoResult
    /\ idGen = 0
    /\ prev = NoValue
    /\ passes = 0

\* one call of pcb_board.parse on the caller's record
Normalize ==
    /\ pc = "ready"
    /\ result' = pcb_board(raw, idGen)
    /\ idGen' = idGen + IdGeneratorCalls(raw)
    /\ raw' = CallerRecordAfter(raw)
    /\ pc' = "done"
    /\ passes' = passes + 1
    /\ UNCHANGED prev

\* the caller feeds a successful output back in as the next raw input
Refeed ==
    /\ pc = "done"
    /\ result.ok
    /\ passes < MaxPasses
    /\ raw' = result.value
    /\ prev' = result.value
    /\ pc' = "ready"
    /\ UNCHANGED <<result, idGen, passes>>

Next == Normalize \/ Refeed

Spec == Init /\ [][Next]_vars

\* ---- properties ----
Done == pc = "done"
CalledOnRecord == Done /\ IsRecordInput(raw)
Rect == Str("rect")
Polygon == Str("polygon")
Present(v) == v.t # "undefined"
OutlineGiven(input) == Present(input.outline)
SizeGiven(input) == Present(input.width) \/ Present(input.height)
Conflicting(input) == OutlineGiven(input) /\ SizeGiven(input)
BaseValid(input) == pcb_board_base(input, 0).ok
OutlineValid(input) == array_of_point(input.outline, "outline").ok
SizeValid(input) ==
    length(input.width, "width").ok /\ length(input.height, "height").ok
Required(p) == Issue("invalid_type", p, "undefined")
DiscriminatorIssue == Issue("invalid_union_discriminator", "shape", "")
ShapePaths == {"shape", "width", "height", "outline"}

\* C1: a record with outline and with width or height fails with the
\* ConflictingShapeFields error and no other error, whatever the shape tag
\* and whatever else is missing or invalid.
C1_ConflictPrecedence ==
    CalledOnRecord /\ Conflicting(raw) =>
        /\ ~result.ok
        /\ result.issues = {ConflictIssue}
        /\ ErrorKinds(result) = {"ConflictingShapeFields"}

C1_Witness ==
    /\ CalledOnRecord /\ Conflicting(raw)
    /\ raw.shape = Rect /\ ~Present(raw.center) /\ raw.outline = BadOutline
    /\ result.thrown

C3_DiscriminantConsistency ==
    Done /\ result.ok =>
        \/ /\ result.value.shape = Rect
           /\ Present(result.value.width) /\ Present(result.value.height)
           /\ ~Present(result.value.outline)
        \/ /\ result.value.shape = Polygon
           /\ Present(result.value.outline)
           /\ ~Present(result.value.width) /\ ~Present(result.value.height)

C3_Witness ==
    /\ Done /\ result.ok /\ raw.shape = Rect /\ passes = 1
    /\ result.value.shape = Rect /\ result.value.width = Num(200)

TagMismatch(input) ==
    \/ input.shape = Rect /\ OutlineGiven(input) /\ ~SizeGiven(input)
    \/ input.shape = Polygon /\ SizeGiven(input) /\ ~OutlineGiven(input)

C5_UnknownTagRejected ==
    CalledOnRecord /\ Present(raw.shape) /\ raw.shape \notin {Rect, Polygon} =>
        /\ ~result.ok
        /\ ~Conflicting(raw) => "UnknownOrMismatchedShape" \in ErrorKinds(result)

\* C6: normalizing a successful output again succeeds and gives the same
\* descriptor in every field.
C6_Idempotent ==
    Done /\ passes >= 2 => result.ok /\ result.value = prev

C6_Witness ==
    /\ Done /\ passes >= 2 /\ result.ok
    /\ result.value.pcb_board_id = GeneratedId(0)
    /\ result.value.thickness = Num(DefaultThickness)
    /\ result.value.shape = Polygon

\* C7: in a successful descriptor thickness, num_layers and material are
\* set: 1.4, 4 and "fr4" when missing, the supplied value otherwise, for
\* both variants.
C7_Defaults ==
    Done /\ result.ok =>
        /\ Present(result.value.thickness)
        /\ Present(result.value.num_layers)
        /\ Present(result.value.material)
        /\ ~Present(raw.thickness) => result.value.thickness = Num(14)
        /\ raw.thickness = Num(16) => result.value.thickness = Num(16)
        /\ raw.thickness = Str("2mm") => result.value.thickness = Num(20)
        /\ ~Present(raw.num_layers) => result.value.num_layers = Num(4)
        /\ Present(raw.num_layers) => result.value.num_layers = raw.num_layers
        /\ ~Present(raw.material) => result.value.material = Str("fr4")
        /\ Present(raw.material) => result.value.material = raw.material

C7_Witness ==
    /\ Done /\ result.ok /\ passes = 1
    /\ result.value.shape = Polygon
    /\ ~Present(raw.thickness) /\ raw.num_layers = Num(2)
    /\ raw.material = Str("fr1")
    /\ result.value.thickness = Num(14) /\ result.value.material = Str("fr1")

DiscriminatedAsRect(input) ==
    ~preprocess(input).thrown /\ preprocess(input).value.shape = Rect

C9_Purity ==
    [][pc = "ready" /\ pc' = "done" =>
         /\ raw' = raw
         /\ prev' = prev
         /\ Present(raw.pcb_board_id) =>
              /\ idGen' = idGen
              /\ result'.ok => result'.value.pcb_board_id = raw.pcb_board_id
         /\ idGen' # idGen => ~Present(raw.pcb_board_id)]_vars

C9_Witness ==
    /\ Done /\ passes = 1 /\ result.ok /\ idGen = 0
    /\ ~Present(raw.shape) /\ result.value.shape = Rect
    /\ raw.pcb_board_id = Str("board_A")
    /\ result.value.pcb_board_id = Str("board_A")

\* C10: every successful polygon descriptor has a non-empty outline.
C10_OutlineNonEmpty ==
    Done /\ result.ok /\ result.value.shape = Polygon =>
        Len(result.value.outline.pts) > 0

====
